---- MODULE Spec2Model ----
(***************************************************************************)
(* State-machine model of RealtimeVoiceClient                              *)
(* (src/src/realtime_voice_client.py) together with the stop() task that   *)
(* the SIGINT handler of src/main_voice.py schedules.                      *)
(*                                                                         *)
(* The client runs on one asyncio event loop, so every action below is the *)
(* code a task executes between two suspension points (await).  The three  *)
(* loops started by asyncio.gather, the start() coroutine and every stop() *)
(* task are the processes; the server, the network and the audio devices   *)
(* are the environment and are modelled by nondeterministic choices.       *)
(***************************************************************************)
EXTENDS Integers, Sequences, FiniteSets, TLC

(***************************************************************************)
(* Bounds of the model.                                                    *)
(***************************************************************************)
\* inbound websocket messages delivered to the receive loop
MaxMsgs == 2
\* microphone frames the capture loop sends
MaxFrames == 1
\* stop() invocations besides the one in start()'s finally block
MaxStops == 1
MaxConns == 2
MaxServerMsgs == 1

(***************************************************************************)
(* Wire codec: base64.b64decode(s) with validate=False, i.e.               *)
(* binascii.a2b_base64 in non-strict mode.  A payload is a sequence of     *)
(* characters.  Characters outside the alphabet are skipped, "=" is the    *)
(* pad, and a group that ends after 1, 2 or 3 sextets without the needed   *)
(* padding raises binascii.Error.                                          *)
(***************************************************************************)
(* The value of a character in the base64 alphabet, 64 for any other. *)
B64Val(c) ==
    CASE c = "A" -> 0
      [] c = "C" -> 2
      [] c = "E" -> 4
      [] c = "Q" -> 16
      [] OTHER -> 64

RECURSIVE A2B(_, _, _, _, _, _)
A2B(s, i, quad_pos, leftchar, pads, out) ==
    IF i > Len(s)
    THEN [ok |-> quad_pos = 0, bytes |-> IF quad_pos = 0 THEN out ELSE <<>>]
    ELSE LET c == s[i]
             v == B64Val(c)
         IN IF c = "="
            THEN IF quad_pos >= 2 /\ quad_pos + pads + 1 >= 4
                 THEN [ok |-> TRUE, bytes |-> out]
                 ELSE A2B(s, i + 1, quad_pos, leftchar,
                          IF quad_pos >= 2 THEN pads + 1 ELSE pads, out)
            ELSE IF v >= 64
            THEN A2B(s, i + 1, quad_pos, leftchar, pads, out)
            ELSE CASE quad_pos = 0 ->
                        A2B(s, i + 1, 1, v, 0, out)
                   [] quad_pos = 1 ->
                        A2B(s, i + 1, 2, v % 16, 0,
                            Append(out, (leftchar * 4 + v \div 16) % 256))
                   [] quad_pos = 2 ->
                        A2B(s, i + 1, 3, v % 4, 0,
                            Append(out, (leftchar * 16 + v \div 4) % 256))
                   [] OTHER ->
                        A2B(s, i + 1, 0, 0, 0,
                            Append(out, (leftchar * 64 + v) % 256))

b64decode(s) == A2B(s, 1, 0, 0, 0, <<>>)

(***************************************************************************)
(* Inbound websocket messages.  kind says what json.loads makes of the     *)
(* text: "garbage" raises json.JSONDecodeError, "nonobject" parses to a    *)
(* value that is no dict, "object" parses to a dict whose "type",          *)
(* "transcript" and "delta" entries are the fields below (an absent entry  *)
(* reads as the default "" of event.get).  error is the class of the code  *)
(* carried by the "error" entry of an error event: "fatal", "advisory",    *)
(* or "" when the message carries none.                                    *)
(***************************************************************************)
Msg(k, t, tr, d) ==
    [kind |-> k, type |-> t, transcript |-> tr, delta |-> d, error |-> ""]

Event(t, tr, d) == Msg("object", t, tr, d)

T_SessionCreated == "session.created"
T_SessionUpdated == "session.updated"
T_UserTranscript == "conversation.item.input_audio_transcription.completed"
T_TranscriptDelta == "response.audio_transcript.delta"
T_TranscriptDone == "response.audio_transcript.done"
T_AudioDelta == "response.audio.delta"
T_AudioDone == "response.audio.done"
T_Error == "error"
T_Unknown == "rate_limits.updated"
T_ToolCall == "response.function_call_arguments.done"

ErrorCodes == {"fatal", "advisory"}

ErrorEvent(c) == [Event(T_Error, "", <<>>) EXCEPT !.error = c]

PayloadAAEC == <<"A", "A", "E", "C">>
PayloadAQ == <<"A", "Q", "=", "=">>
PayloadBadPadding == <<"A", "A", "E">>
PayloadEmpty == <<>>

Payloads == {PayloadEmpty, PayloadAAEC, PayloadAQ, PayloadBadPadding}

Messages ==
    { Msg("garbage", "", "", <<>>), Msg("nonobject", "", "", <<>>) }
    \cup { Event(t, "", <<>>) :
             t \in {T_SessionCreated, T_SessionUpdated, T_AudioDone,
                    T_Unknown, T_ToolCall} }
    \cup { ErrorEvent(c) : c \in ErrorCodes }
    \cup { Event(T_UserTranscript, tr, <<>>) : tr \in {"", "hi"} }
    \cup { Event(T_TranscriptDelta, "", <<"h">>) }
    \cup { Event(T_TranscriptDone, tr, <<>>) : tr \in {"", "hello"} }
    \cup { Event(T_AudioDelta, "", d) : d \in Payloads }

NoMsg == Msg("none", "", "", <<>>)

VARIABLES
    \* fields of RealtimeVoiceClient
    running,              \* self.running
    ws,                   \* self.ws: "none" | "open" | "closing" | "closed"
    audio,                \* self.audio: "none" | "live" | "terminated"
    input_stream,         \* self.input_stream: "none" | "open" | "closed"
    output_stream,        \* self.output_stream: "none" | "open" | "closed"
    transcript_callback,  \* TRUE iff set_transcript_callback was called
    playback_queue,       \* self.playback_queue: sequence of [id, data]
    \* positions of the coroutines
    pcStart,              \* start()
    pcSend,               \* _send_audio()
    pcRecv,               \* _receive_events()
    pcPlay,               \* _play_audio()
    pcStop,               \* stop() tasks, by order of invocation
    pcStart2,             \* a second start() call on the same client
    deviceBusy,           \* the blocking PyAudio call the thread is inside
    \* observations of what the program did (never read by the program)
    sent,                 \* types of the messages passed to ws.send, in order
    handshake,            \* 0, 1 after session.created, 2 after session.updated
    nRecv,                \* messages the receive loop has obtained
    lastMsg,              \* the last message the receive loop obtained
    enqLog,               \* data of every chunk put on the queue, in order
    writeLog,             \* [id, data] of every output_stream.write call
    cbLog,                \* [role, text] of every transcript callback call
    released,             \* release calls made on each resource
    stopErrors,           \* stop() calls that ended by raising
    trace,                \* flags: what has happened so far
    \* the audio server (server/audio_server.py)
    active_connections,   \* AudioServer.active_connections: set of connections
    pcHandler,            \* handle_client per connection: "none" | "recv" | "send" | "done"
    peer,                 \* the client end: "none" | "open" | "closed" | "aborted"
    inbox,                \* messages received on the connection, not yet iterated
    responses             \* websocket.send calls made, per connection

vars == << running, ws, audio, input_stream, output_stream, transcript_callback,
           playback_queue, pcStart, pcSend, pcRecv, pcPlay, pcStop, sent,
           handshake, nRecv, lastMsg, enqLog, writeLog, cbLog, released,
           stopErrors, trace, pcStart2, deviceBusy, active_connections,
           pcHandler, peer, inbox, responses >>

clientVars == << running, ws, audio, input_stream, output_stream, released,
                 stopErrors >>
loopVars == << pcSend, pcRecv, pcPlay >>
recvObs == << handshake, nRecv, lastMsg, enqLog, cbLog >>
srvVars == << active_connections, pcHandler, peer, inbox, responses >>
extVars == << pcStart2, deviceBusy, srvVars >>
voiceVars == << clientVars, transcript_callback, playback_queue, pcStart,
                loopVars, pcStop, sent, recvObs, writeLog, trace, pcStart2,
                deviceBusy >>

Conns == 1 .. MaxConns

StopIds == 1 .. MaxStops

NoTrace ==
    [ stopWhileRunning |-> FALSE,   \* stop() was invoked with running = TRUE
      dropWhileRunning |-> FALSE,   \* the transport ended with running = TRUE
      captureFailed |-> FALSE,      \* a device read or a send raised in _send_audio
      writeFailed |-> FALSE,        \* output_stream.write raised in _play_audio
      decodeFailed |-> FALSE,       \* base64.b64decode raised in _handle_event
      garbageSkipped |-> FALSE,     \* a JSONDecodeError was logged and skipped
      startupFailed |-> FALSE ]     \* connect or _setup_audio raised in start()

NoRelease == [ input |-> 0, output |-> 0, audio |-> 0, ws |-> 0 ]

(* RealtimeVoiceClient.__init__, then an optional set_transcript_callback. *)
Init ==
    /\ running = FALSE
    /\ ws = "none"
    /\ audio = "none"
    /\ input_stream = "none"
    /\ output_stream = "none"
    /\ transcript_callback \in BOOLEAN
    /\ playback_queue = <<>>
    /\ pcStart = "idle"
    /\ pcSend = "none"
    /\ pcRecv = "none"
    /\ pcPlay = "none"
    /\ pcStop = [i \in StopIds |-> "none"]
    /\ sent = <<>>
    /\ handshake = 0
    /\ nRecv = 0
    /\ lastMsg = NoMsg
    /\ enqLog = <<>>
    /\ writeLog = <<>>
    /\ cbLog = <<>>
    /\ released = NoRelease
    /\ stopErrors = 0
    /\ trace = NoTrace
    /\ pcStart2 = "none"
    /\ deviceBusy = "none"
    /\ active_connections = {}
    /\ pcHandler = [c \in Conns |-> "none"]
    /\ peer = [c \in Conns |-> "none"]
    /\ inbox = [c \in Conns |-> <<>>]
    /\ responses = [c \in Conns |-> 0]

(* Variant: the input stream is not closed. *)
CleanupAudioLeavesInput(ins, outs, au, rel, reclose) ==
    [ input |-> ins,
      output |-> IF outs # "none" THEN "closed" ELSE outs,
      audio |-> IF au # "none" THEN "terminated" ELSE au,
      released |-> rel,
      raised |-> FALSE ]

(***************************************************************************)
(* _cleanup_audio.  The fields are never reset to None, so a second call   *)
(* finds the stream objects again.  reclose is what PyAudio does when      *)
(* stop_stream()/close() is called on a stream that is already closed:     *)
(* "raise" (OSError) or "noop" (the call is accepted once more).           *)
(***************************************************************************)
CleanupAudio(ins, outs, au, rel, reclose) ==
    LET inRaise == ins = "closed" /\ reclose = "raise"
        inDone == ins # "none" /\ ~inRaise
        outRaise == ~inRaise /\ outs = "closed" /\ reclose = "raise"
        outDone == ~inRaise /\ outs # "none" /\ ~outRaise
        raised == inRaise \/ outRaise
        auDone == ~raised /\ au # "none"
    IN [ input |-> IF inDone THEN "closed" ELSE ins,
         output |-> IF outDone THEN "closed" ELSE outs,
         audio |-> IF auDone THEN "terminated" ELSE au,
         released |-> [ rel EXCEPT
                          !.input = IF inDone THEN @ + 1 ELSE @,
                          !.output = IF outDone THEN @ + 1 ELSE @,
                          !.audio = IF auDone THEN @ + 1 ELSE @ ],
         raised |-> raised ]

(***************************************************************************)
(* stop() up to its first suspension: running = False, _cleanup_audio(),   *)
(* and, if self.ws is set, the call of ws.close().  next is where the      *)
(* caller goes: "raised" (the cleanup raised), "closing" (awaiting         *)
(* ws.close()) or "returned".  ws.close() is idempotent (websockets): only *)
(* the call that finds the connection open starts the closing handshake    *)
(* and counts as a release.                                                *)
(***************************************************************************)
StopBody(ins, outs, au, w, rel, reclose) ==
    LET c == CleanupAudio(ins, outs, au, rel, reclose)
        closes == ~c.raised /\ w # "none"
    IN [ input |-> c.input,
         output |-> c.output,
         audio |-> c.audio,
         ws |-> IF closes /\ w = "open" THEN "closing" ELSE w,
         released |-> IF closes /\ w = "open"
                      THEN [c.released EXCEPT !.ws = @ + 1]
                      ELSE c.released,
         next |-> IF c.raised THEN "raised"
                  ELSE IF closes THEN "closing" ELSE "returned" ]

ApplyStop(r) ==
    /\ running' = FALSE
    /\ input_stream' = r.input
    /\ output_stream' = r.output
    /\ audio' = r.audio
    /\ ws' = r.ws
    /\ released' = r.released
    /\ stopErrors' = IF r.next = "raised" THEN stopErrors + 1 ELSE stopErrors

Reclose == {"raise", "noop"}

(***************************************************************************)
(* start()                                                                 *)
(***************************************************************************)
(* start() is called and suspends in websockets.connect. *)
StartCall ==
    /\ pcStart = "idle"
    /\ pcStart' = "connecting"
    /\ UNCHANGED << clientVars, transcript_callback, playback_queue, loopVars,
                    pcStop, sent, recvObs, writeLog, trace,
                    extVars >>

(* websockets.connect raises: connect() re-raises, start() logs the error  *)
(* and runs stop() in its finally block.                                   *)
ConnectFail ==
    /\ pcStart = "connecting"
    /\ \E reclose \in Reclose :
         LET r == StopBody(input_stream, output_stream, audio, ws, released,
                           reclose)
         IN /\ ApplyStop(r)
            /\ pcStart' = r.next
    /\ UNCHANGED << transcript_callback, playback_queue, loopVars, pcStop,
                    sent, recvObs, writeLog,
                    extVars >>
    /\ trace' = [trace EXCEPT !.startupFailed = TRUE]

(* Variant: the configuration is not sent. *)
ConfigureSessionSkipped(s) == s

(* _configure_session: one session.update message is passed to ws.send. *)
ConfigureSession(s) == Append(s, "session.update")

(* websockets.connect returns: self.ws is set and _configure_session       *)
(* passes the session.update message to ws.send, where start() suspends.   *)
ConnectOk ==
    /\ pcStart = "connecting"
    /\ ws' = "open"
    /\ sent' = ConfigureSession(sent)
    /\ pcStart' = "configuring"
    /\ UNCHANGED << running, audio, input_stream, output_stream, released,
                    stopErrors, transcript_callback, playback_queue, loopVars,
                    pcStop, recvObs, writeLog, trace,
                    extVars >>

(* ws.send of the configuration raises. *)
ConfigureFail ==
    /\ pcStart = "configuring"
    /\ \E reclose \in Reclose :
         LET r == StopBody(input_stream, output_stream, audio, ws, released,
                           reclose)
         IN /\ ApplyStop(r)
            /\ pcStart' = r.next
    /\ UNCHANGED << transcript_callback, playback_queue, loopVars, pcStop,
                    sent, recvObs, writeLog,
                    extVars >>
    /\ trace' = [trace EXCEPT !.startupFailed = TRUE]

(* _setup_audio: how far it gets before a PyAudio call raises. *)
SetupOutcomes == {"ok", "no_audio", "no_input", "no_output"}

SetupAudio(outcome) ==
    [ audio |-> IF outcome = "no_audio" THEN audio ELSE "live",
      input |-> IF outcome \in {"ok", "no_output"} THEN "open" ELSE input_stream,
      output |-> IF outcome = "ok" THEN "open" ELSE output_stream ]

(* ws.send returned; _setup_audio succeeds; running = True; gather creates *)
(* the three loop tasks and start() suspends until all of them are done.   *)
StartRun ==
    /\ pcStart = "configuring"
    /\ LET a == SetupAudio("ok")
       IN /\ audio' = a.audio
          /\ input_stream' = a.input
          /\ output_stream' = a.output
    /\ running' = TRUE
    /\ pcSend' = "start"
    /\ pcRecv' = "start"
    /\ pcPlay' = "start"
    /\ pcStart' = "gather"
    /\ UNCHANGED << ws, released, stopErrors, transcript_callback,
                    playback_queue, pcStop, sent, recvObs, writeLog, trace,
                    extVars >>

(* ws.send returned; _setup_audio raises part-way; finally: stop(). *)
SetupFail ==
    /\ pcStart = "configuring"
    /\ \E outcome \in SetupOutcomes \ {"ok"}, reclose \in Reclose :
         LET a == SetupAudio(outcome)
             r == StopBody(a.input, a.output, a.audio, ws, released, reclose)
         IN /\ ApplyStop(r)
            /\ pcStart' = r.next
    /\ UNCHANGED << transcript_callback, playback_queue, loopVars, pcStop,
                    sent, recvObs, writeLog,
                    extVars >>
    /\ trace' = [trace EXCEPT !.startupFailed = TRUE]

(* Variant: the wait ends with the first loop that is done. *)
GatherFirstCompleted ==
    pcSend = "done" \/ pcRecv = "done" \/ pcPlay = "done"

(* asyncio.gather of the three loops: done when all three are done. *)
GatherDone == pcSend = "done" /\ pcRecv = "done" /\ pcPlay = "done"

(* gather returns once the three loops are done; finally: stop(). *)
StartJoin ==
    /\ pcStart = "gather"
    /\ GatherDone
    /\ \E reclose \in Reclose :
         LET r == StopBody(input_stream, output_stream, audio, ws, released,
                           reclose)
         IN /\ ApplyStop(r)
            /\ pcStart' = r.next
    /\ UNCHANGED << transcript_callback, playback_queue, loopVars, pcStop,
                    sent, recvObs, writeLog, trace,
                    extVars >>

(* ws.close() awaited by start()'s stop() returns; start() returns. *)
StartCloseDone ==
    /\ pcStart = "closing"
    /\ ws = "closed"
    /\ pcStart' = "returned"
    /\ UNCHANGED << clientVars, transcript_callback, playback_queue, loopVars,
                    pcStop, sent, recvObs, writeLog, trace,
                    extVars >>

(***************************************************************************)
(* stop() run as a task of its own (main_voice.signal_handler, or any      *)
(* other caller on the event loop).                                        *)
(***************************************************************************)
StopCall(i) ==
    /\ pcStop[i] = "none"
    /\ \A j \in StopIds : j < i => pcStop[j] # "none"
    /\ \E reclose \in Reclose :
         LET r == StopBody(input_stream, output_stream, audio, ws, released,
                           reclose)
         IN /\ ApplyStop(r)
            /\ pcStop' = [pcStop EXCEPT ![i] = r.next]
    /\ trace' = [trace EXCEPT !.stopWhileRunning = @ \/ running]
    /\ UNCHANGED << transcript_callback, playback_queue, pcStart, loopVars,
                    sent, recvObs, writeLog,
                    extVars >>

StopCloseDone(i) ==
    /\ pcStop[i] = "closing"
    /\ ws = "closed"
    /\ pcStop' = [pcStop EXCEPT ![i] = "returned"]
    /\ UNCHANGED << clientVars, transcript_callback, playback_queue, pcStart,
                    loopVars, sent, recvObs, writeLog, trace,
                    extVars >>

(***************************************************************************)
(* The transport.                                                          *)
(***************************************************************************)
(* The closing handshake started by ws.close() completes. *)
WsCloseComplete ==
    /\ ws = "closing"
    /\ ws' = "closed"
    /\ UNCHANGED << running, audio, input_stream, output_stream, released,
                    stopErrors, transcript_callback, playback_queue, pcStart,
                    loopVars, pcStop, sent, recvObs, writeLog, trace,
                    extVars >>

(* The server ends the stream or the connection drops. *)
WsDrop ==
    /\ ws = "open"
    /\ ws' = "closed"
    /\ trace' = [trace EXCEPT !.dropWhileRunning = @ \/ running]
    /\ UNCHANGED << running, audio, input_stream, output_stream, released,
                    stopErrors, transcript_callback, playback_queue, pcStart,
                    loopVars, pcStop, sent, recvObs, writeLog,
                    extVars >>

(***************************************************************************)
(* _send_audio: the capture loop.  One iteration runs from the loop test   *)
(* to asyncio.sleep without an observable suspension in between.           *)
(***************************************************************************)
AppendType == "input_audio_buffer.append"

(***************************************************************************)
(* What goes on the wire.  The client is built from a config dictionary;   *)
(* connect() puts the API key in the headers of the opening request,       *)
(* _configure_session and _send_audio build the message bodies.            *)
(***************************************************************************)
ApiKeys == {"key-a", "key-b"}

ClientConfig(k) ==
    [ endpoint |-> "https://host", api_key |-> k,
      system_prompt |-> "You are a helpful assistant." ]

ConnectHeaders(c) == [ api_key |-> c.api_key ]

(* Variant: the key is repeated in the body of the configuration. *)
ConfigEventWithKey(c) ==
    [ type |-> "session.update", instructions |-> c.system_prompt,
      voice |-> "alloy", api_key |-> c.api_key ]

ConfigEvent(c) ==
    [ type |-> "session.update", instructions |-> c.system_prompt,
      voice |-> "alloy" ]

AppendEvent(c, frame) == [ type |-> AppendType, audio |-> frame ]

(* The bodies of the messages passed to ws.send so far, in order, for a    *)
(* client built from config c; every frame read is the same frame.         *)
SentBodies(c) ==
    [ i \in DOMAIN sent |->
        IF sent[i] = ConfigEvent(c).type THEN ConfigEvent(c)
        ELSE AppendEvent(c, "frame") ]

NumAppends == Cardinality({ i \in DOMAIN sent : sent[i] = AppendType })

(* while self.running: false, the loop returns. *)
SendExit ==
    /\ pcSend \in {"start", "sleeping"}
    /\ ~running
    /\ pcSend' = "done"
    /\ UNCHANGED << clientVars, transcript_callback, playback_queue, pcStart,
                    pcRecv, pcPlay, pcStop, sent, recvObs, writeLog, trace,
                    extVars >>

(* One frame is read, encoded and passed to ws.send; then sleep. *)
ReadAndSend ==
    /\ pcSend \in {"start", "sleeping"}
    /\ running
    /\ input_stream = "open"
    /\ ws = "open"
    /\ NumAppends < MaxFrames
    /\ sent' = Append(sent, AppendType)
    /\ pcSend' = "sleeping"
    /\ UNCHANGED << clientVars, transcript_callback, playback_queue, pcStart,
                    pcRecv, pcPlay, pcStop, recvObs, writeLog, trace >>

SendIter == ReadAndSend /\ UNCHANGED extVars

(* is_active() on a closed stream or read() raises; except Exception logs  *)
(* and the loop returns.                                                   *)
ReadRaises ==
    /\ pcSend \in {"start", "sleeping"}
    /\ running
    /\ input_stream \in {"open", "closed"}
    /\ pcSend' = "done"
    /\ trace' = [trace EXCEPT !.captureFailed = TRUE]
    /\ UNCHANGED << clientVars, transcript_callback, playback_queue, pcStart,
                    pcRecv, pcPlay, pcStop, sent, recvObs, writeLog >>

SendDeviceError == ReadRaises /\ UNCHANGED extVars

(* ws.send raises ConnectionClosed; except Exception logs and the loop     *)
(* returns.                                                                *)
SendRaises ==
    /\ pcSend \in {"start", "sleeping"}
    /\ running
    /\ input_stream = "open"
    /\ ws # "open"
    /\ pcSend' = "done"
    /\ trace' = [trace EXCEPT !.captureFailed = TRUE]
    /\ UNCHANGED << clientVars, transcript_callback, playback_queue, pcStart,
                    pcRecv, pcPlay, pcStop, sent, recvObs, writeLog >>

SendWsError == SendRaises /\ UNCHANGED extVars

(***************************************************************************)
(* _handle_event: what dispatching the parsed event m does.  cbOutcome is  *)
(* how the transcript callback ends, "ok" or "raise".  calls are the       *)
(* callback invocations, chunks the data put on the playback queue.        *)
(***************************************************************************)
(* Variant: every transcript is reported with the role "assistant". *)
TranscriptCallOneRole(role, m, cbOutcome) ==
    IF m.transcript # "" /\ transcript_callback
    THEN [ calls |-> << [role |-> "assistant", text |-> m.transcript] >>,
           chunks |-> <<>>, raised |-> cbOutcome = "raise",
           decodeFailed |-> FALSE ]
    ELSE [ calls |-> <<>>, chunks |-> <<>>, raised |-> FALSE,
           decodeFailed |-> FALSE ]

TranscriptCall(role, m, cbOutcome) ==
    IF m.transcript # "" /\ transcript_callback
    THEN [ calls |-> << [role |-> role, text |-> m.transcript] >>,
           chunks |-> <<>>, raised |-> cbOutcome = "raise",
           decodeFailed |-> FALSE ]
    ELSE [ calls |-> <<>>, chunks |-> <<>>, raised |-> FALSE,
           decodeFailed |-> FALSE ]

AudioDelta(m) ==
    IF m.delta # <<>>
    THEN LET d == b64decode(m.delta)
         IN [ calls |-> <<>>,
              chunks |-> IF d.ok THEN << d.bytes >> ELSE <<>>,
              raised |-> ~d.ok, decodeFailed |-> ~d.ok ]
    ELSE [ calls |-> <<>>, chunks |-> <<>>, raised |-> FALSE,
           decodeFailed |-> FALSE ]

(* Variant: an event of a type that has no branch raises. *)
HandleEventRejectsUnknown(m, cbOutcome) ==
    CASE m.type = T_UserTranscript -> TranscriptCall("user", m, cbOutcome)
      [] m.type = T_TranscriptDone -> TranscriptCall("assistant", m, cbOutcome)
      [] m.type = T_AudioDelta -> AudioDelta(m)
      [] m.type \in {T_SessionCreated, T_SessionUpdated, T_TranscriptDelta,
                     T_AudioDone, T_Error} ->
            [ calls |-> <<>>, chunks |-> <<>>, raised |-> FALSE,
              decodeFailed |-> FALSE ]
      [] OTHER -> [ calls |-> <<>>, chunks |-> <<>>, raised |-> TRUE,
                    decodeFailed |-> FALSE ]

(* Variant: a transcript delta is forwarded to the callback as well. *)
HandleEventForwardsDelta(m, cbOutcome) ==
    CASE m.type = T_UserTranscript -> TranscriptCall("user", m, cbOutcome)
      [] m.type = T_TranscriptDone -> TranscriptCall("assistant", m, cbOutcome)
      [] m.type = T_TranscriptDelta ->
            [ calls |-> << [role |-> "assistant", text |-> "partial"] >>,
              chunks |-> <<>>, raised |-> FALSE, decodeFailed |-> FALSE ]
      [] m.type = T_AudioDelta -> AudioDelta(m)
      [] OTHER -> [ calls |-> <<>>, chunks |-> <<>>, raised |-> FALSE,
                    decodeFailed |-> FALSE ]

HandleEvent(m, cbOutcome) ==
    CASE m.type = T_UserTranscript -> TranscriptCall("user", m, cbOutcome)
      [] m.type = T_TranscriptDone -> TranscriptCall("assistant", m, cbOutcome)
      [] m.type = T_AudioDelta -> AudioDelta(m)
      [] OTHER -> [ calls |-> <<>>, chunks |-> <<>>, raised |-> FALSE,
                    decodeFailed |-> FALSE ]

(* The session phase of the specification, followed from the events seen. *)
Handshake(h, m) ==
    IF m.type = T_SessionCreated /\ h = 0 THEN 1
    ELSE IF m.type = T_SessionUpdated /\ h = 1 THEN 2
    ELSE h

(* asyncio.Queue(): no maxsize argument, which is maxsize 0, no bound. *)
QueueMaxSize == 0

(* Variant: the queue is created with maxsize 1. *)
PutBlocksWhenFull(q) == Len(q) >= 1

(* playback_queue.put waits while the queue is full; a queue of maxsize 0  *)
(* is never full.                                                          *)
PutBlocks(q) == QueueMaxSize > 0 /\ Len(q) >= QueueMaxSize

(* playback_queue.put: the queue has no maxsize, put never waits. *)
QueuePut(q, chunks, firstId) ==
    q \o [ i \in 1 .. Len(chunks) |-> [id |-> firstId + i, data |-> chunks[i]] ]

(* Variant: the loop does not test self.running. *)
RecvNeverBreaks == FALSE

(* `if not self.running: break`, the first statement of an iteration. *)
RecvBreaks == ~running

(* Variant: JSONDecodeError is not caught by the inner try. *)
DecodeUncaught(m) ==
    CASE m.kind \in {"garbage", "nonobject"} -> "fatal"
      [] OTHER -> "dispatch"

(* What json.loads and the except clauses of _receive_events make of one   *)
(* message: "skip" (JSONDecodeError, logged), "fatal" (any other           *)
(* exception, caught by the outer except) or "dispatch".                   *)
Decode(m) ==
    CASE m.kind = "garbage" -> "skip"
      [] m.kind = "nonobject" -> "fatal"
      [] OTHER -> "dispatch"

(***************************************************************************)
(* _receive_events: the receive loop obtains the next message m.           *)
(***************************************************************************)
RecvMsg(m, cbOutcome) ==
    /\ pcRecv \in {"start", "wait"}
    /\ ws \in {"open", "closing"}
    /\ nRecv < MaxMsgs
    /\ nRecv' = nRecv + 1
    /\ lastMsg' = m
    /\ IF RecvBreaks
       THEN /\ pcRecv' = "done"
            /\ UNCHANGED << playback_queue, handshake, enqLog, cbLog, trace >>
       ELSE IF Decode(m) # "dispatch"
       THEN /\ pcRecv' = IF Decode(m) = "skip" THEN "wait" ELSE "done"
            /\ trace' = [trace EXCEPT
                           !.garbageSkipped = @ \/ Decode(m) = "skip"]
            /\ UNCHANGED << playback_queue, handshake, enqLog, cbLog >>
       ELSE LET e == HandleEvent(m, cbOutcome)
                blocked == e.chunks # <<>> /\ PutBlocks(playback_queue)
            IN /\ pcRecv' = IF e.raised THEN "done"
                            ELSE IF blocked THEN "putting" ELSE "wait"
               /\ playback_queue' = IF blocked THEN playback_queue
                                     ELSE QueuePut(playback_queue, e.chunks,
                                                   Len(enqLog))
               /\ enqLog' = IF blocked THEN enqLog ELSE enqLog \o e.chunks
               /\ cbLog' = cbLog \o e.calls
               /\ handshake' = Handshake(handshake, m)
               /\ trace' = [trace EXCEPT !.decodeFailed = @ \/ e.decodeFailed]
    /\ UNCHANGED << clientVars, transcript_callback, pcStart, pcSend, pcPlay,
                    pcStop, sent, writeLog,
                    extVars >>

(* The connection is closed: the async for ends (or ConnectionClosed is    *)
(* caught) and the loop returns.                                           *)
RecvEnd ==
    /\ pcRecv \in {"start", "wait"}
    /\ ws = "closed"
    /\ pcRecv' = "done"
    /\ UNCHANGED << clientVars, transcript_callback, playback_queue, pcStart,
                    pcSend, pcPlay, pcStop, sent, recvObs, writeLog, trace,
                    extVars >>

(***************************************************************************)
(* _play_audio: the playback loop.                                         *)
(***************************************************************************)
(* Variant: the newest chunk is taken instead of the oldest. *)
QueueGetNewest(q) ==
    [ chunk |-> q[Len(q)], rest |-> SubSeq(q, 1, Len(q) - 1) ]

(* playback_queue.get: the chunk taken and the queue left. *)
QueueGet(q) == [ chunk |-> Head(q), rest |-> Tail(q) ]

(* Variant: the loop test ignores self.running. *)
PlayNextForever == "wait"

(* The loop test after an iteration. *)
PlayNext == IF running THEN "wait" ELSE "done"

(* First loop test of the task. *)
PlayStart ==
    /\ pcPlay = "start"
    /\ pcPlay' = PlayNext
    /\ UNCHANGED << clientVars, transcript_callback, playback_queue, pcStart,
                    pcSend, pcRecv, pcStop, sent, recvObs, writeLog, trace,
                    extVars >>

(* wait_for(get, 0.1) times out on the empty queue: continue. *)
PlayTimeout ==
    /\ pcPlay = "wait"
    /\ playback_queue = <<>>
    /\ pcPlay' = PlayNext
    /\ UNCHANGED << clientVars, transcript_callback, playback_queue, pcStart,
                    pcSend, pcRecv, pcStop, sent, recvObs, writeLog, trace,
                    extVars >>

(* A chunk is taken and written to the output stream. *)
WriteChunk ==
    /\ pcPlay = "wait"
    /\ playback_queue # <<>>
    /\ output_stream = "open"
    /\ LET g == QueueGet(playback_queue)
       IN /\ playback_queue' = g.rest
          /\ writeLog' = Append(writeLog, g.chunk)
    /\ pcPlay' = PlayNext
    /\ UNCHANGED << clientVars, transcript_callback, pcStart, pcSend, pcRecv,
                    pcStop, sent, recvObs, trace >>

PlayChunk == WriteChunk /\ UNCHANGED extVars

(* Where the loop goes when output_stream.write raises: the inner try      *)
(* catches asyncio.TimeoutError only, the outer except ends the loop.      *)
AfterWriteError == "done"

(* A chunk is taken and output_stream.write raises. *)
WriteRaises ==
    /\ pcPlay = "wait"
    /\ playback_queue # <<>>
    /\ output_stream = "open"
    /\ playback_queue' = QueueGet(playback_queue).rest
    /\ pcPlay' = AfterWriteError
    /\ trace' = [trace EXCEPT !.writeFailed = TRUE]
    /\ UNCHANGED << clientVars, transcript_callback, pcStart, pcSend, pcRecv,
                    pcStop, sent, recvObs, writeLog >>

PlayWriteError == WriteRaises /\ UNCHANGED extVars

(* A chunk is taken and is_active() raises on the closed output stream. *)
PlayClosedStream ==
    /\ pcPlay = "wait"
    /\ playback_queue # <<>>
    /\ output_stream = "closed"
    /\ playback_queue' = QueueGet(playback_queue).rest
    /\ pcPlay' = "done"
    /\ UNCHANGED << clientVars, transcript_callback, pcStart, pcSend, pcRecv,
                    pcStop, sent, recvObs, writeLog, trace,
                    extVars >>

(***************************************************************************)
(* Specifications.                                                         *)
(***************************************************************************)
Step(M) ==
    \/ StartCall
    \/ ConnectFail
    \/ ConnectOk
    \/ ConfigureFail
    \/ StartRun
    \/ SetupFail
    \/ StartJoin
    \/ StartCloseDone
    \/ \E i \in StopIds : StopCall(i)
    \/ \E i \in StopIds : StopCloseDone(i)
    \/ WsCloseComplete
    \/ WsDrop
    \/ SendExit
    \/ SendIter
    \/ SendDeviceError
    \/ SendWsError
    \/ \E m \in M, cbOutcome \in {"ok", "raise"} : RecvMsg(m, cbOutcome)
    \/ RecvEnd
    \/ PlayStart
    \/ PlayTimeout
    \/ PlayChunk
    \/ PlayWriteError
    \/ PlayClosedStream

Next == Step(Messages)

Spec == Init /\ [][Next]_vars

(***************************************************************************)
(* Scheduling: the event loop runs every task that is ready, a sleep or a  *)
(* wait_for timeout expires, an open device returns from a read or a       *)
(* write, and the closing handshake of ws.close() ends (it has a timeout). *)
(* Nothing obliges the server to send, the user to interrupt, the network  *)
(* to fail or a device to raise.                                           *)
(***************************************************************************)
Fairness ==
    /\ WF_vars(StartCall)
    /\ WF_vars(ConnectOk \/ ConnectFail)
    /\ WF_vars(StartRun \/ SetupFail)
    /\ WF_vars(StartJoin)
    /\ WF_vars(StartCloseDone)
    /\ \A i \in StopIds : WF_vars(StopCloseDone(i))
    /\ WF_vars(WsCloseComplete)
    /\ WF_vars(SendExit)
    /\ WF_vars(SendIter \/ SendWsError)
    /\ WF_vars(RecvEnd)
    /\ WF_vars(PlayStart)
    /\ WF_vars(PlayTimeout)
    /\ WF_vars(PlayChunk \/ PlayClosedStream)

(* One message of each way the receive loop can take a message: skipped,   *)
(* fatal to the loop, dispatched without effect, dispatched to the         *)
(* callback, enqueued, and failing to decode.                              *)
LiveMessages ==
    { Msg("garbage", "", "", <<>>), Msg("nonobject", "", "", <<>>),
      Event(T_SessionCreated, "", <<>>),
      Event(T_TranscriptDone, "hello", <<>>),
      Event(T_AudioDelta, "", PayloadAAEC),
      Event(T_AudioDelta, "", PayloadBadPadding) }

NextLive == Step(LiveMessages)

FairSpec == Init /\ [][NextLive]_vars /\ Fairness

(* The messages of the session handshake, the two classes of error event   *)
(* and one audio chunk, under the same scheduling.                         *)
PhaseMessages ==
    { Event(T_SessionCreated, "", <<>>), Event(T_SessionUpdated, "", <<>>),
      ErrorEvent("fatal"), ErrorEvent("advisory"),
      Event(T_ToolCall, "", <<>>),
      Event(T_AudioDelta, "", PayloadAAEC) }

NextPhase == Step(PhaseMessages)

PhaseSpec == Init /\ [][NextPhase]_vars /\ Fairness

(***************************************************************************)
(* A second start() call on a client whose start() was already called.     *)
(* start() tests nothing before it awaits connect(), so the call suspends  *)
(* in websockets.connect like the first one.  The call is followed up to   *)
(* its suspension in the ws.send of _configure_session.                    *)
(***************************************************************************)
Start2Call ==
    /\ pcStart # "idle"
    /\ pcStart2 = "none"
    /\ pcStart2' = "connecting"
    /\ UNCHANGED << clientVars, transcript_callback, playback_queue, pcStart,
                    loopVars, pcStop, sent, recvObs, writeLog, trace,
                    deviceBusy, srvVars >>

(* websockets.connect raises in the second call: finally: stop(), which    *)
(* acts on the fields of the client, those of the first session.           *)
Start2ConnectFail ==
    /\ pcStart2 = "connecting"
    /\ \E reclose \in Reclose :
         LET r == StopBody(input_stream, output_stream, audio, ws, released,
                           reclose)
         IN /\ ApplyStop(r)
            /\ pcStart2' = r.next
    /\ UNCHANGED << transcript_callback, playback_queue, pcStart, loopVars,
                    pcStop, sent, recvObs, writeLog, trace, deviceBusy, srvVars >>

(* websockets.connect returns in the second call: self.ws is overwritten   *)
(* with the new connection and a configuration is sent on it.              *)
Start2ConnectOk ==
    /\ pcStart2 = "connecting"
    /\ ws' = "open"
    /\ sent' = ConfigureSession(sent)
    /\ pcStart2' = "configuring"
    /\ UNCHANGED << running, audio, input_stream, output_stream, released,
                    stopErrors, transcript_callback, playback_queue, pcStart,
                    loopVars, pcStop, recvObs, writeLog, trace, deviceBusy, srvVars >>

(* ws.close() awaited by the second call's stop() returns. *)
Start2CloseDone ==
    /\ pcStart2 = "closing"
    /\ ws = "closed"
    /\ pcStart2' = "returned"
    /\ UNCHANGED << clientVars, transcript_callback, playback_queue, pcStart,
                    loopVars, pcStop, sent, recvObs, writeLog, trace,
                    deviceBusy, srvVars >>

NextRestart ==
    \/ Step(Messages)
    \/ Start2Call
    \/ Start2ConnectFail
    \/ Start2ConnectOk
    \/ Start2CloseDone

RestartSpec == Init /\ [][NextRestart]_vars

(***************************************************************************)
(* The device calls with their duration.  input_stream.read and            *)
(* output_stream.write are plain blocking calls made by the loop           *)
(* coroutines themselves, on the thread of the event loop: from the moment *)
(* the thread enters one until the call returns, no coroutine takes a      *)
(* step.                                                                   *)
(***************************************************************************)
DeviceCallEnter ==
    /\ deviceBusy = "none"
    /\ \/ /\ pcPlay = "wait"
          /\ playback_queue # <<>>
          /\ output_stream = "open"
          /\ deviceBusy' = "write"
       \/ /\ pcSend \in {"start", "sleeping"}
          /\ running
          /\ input_stream = "open"
          /\ deviceBusy' = "read"
    /\ UNCHANGED << clientVars, transcript_callback, playback_queue, pcStart,
                    loopVars, pcStop, sent, recvObs, writeLog, trace,
                    pcStart2, srvVars >>

WriteReturn ==
    /\ deviceBusy = "write"
    /\ WriteChunk \/ WriteRaises
    /\ deviceBusy' = "none"
    /\ UNCHANGED << pcStart2, srvVars >>

ReadReturn ==
    /\ deviceBusy = "read"
    /\ ReadAndSend \/ ReadRaises \/ SendRaises
    /\ deviceBusy' = "none"
    /\ UNCHANGED << pcStart2, srvVars >>

(* The receive loop takes a message: a step of a coroutine, which needs    *)
(* the thread.                                                             *)
BlockingRecv ==
    /\ deviceBusy = "none"
    /\ \E m \in Messages, cbOutcome \in {"ok", "raise"} : RecvMsg(m, cbOutcome)

NextBlocking ==
    \/ deviceBusy = "none" /\ StartCall
    \/ deviceBusy = "none" /\ ConnectFail
    \/ deviceBusy = "none" /\ ConnectOk
    \/ deviceBusy = "none" /\ ConfigureFail
    \/ deviceBusy = "none" /\ StartRun
    \/ deviceBusy = "none" /\ SetupFail
    \/ deviceBusy = "none" /\ StartJoin
    \/ deviceBusy = "none" /\ StartCloseDone
    \/ \E i \in StopIds : deviceBusy = "none" /\ StopCall(i)
    \/ \E i \in StopIds : deviceBusy = "none" /\ StopCloseDone(i)
    \/ deviceBusy = "none" /\ WsCloseComplete
    \/ WsDrop
    \/ deviceBusy = "none" /\ SendExit
    \/ BlockingRecv
    \/ deviceBusy = "none" /\ RecvEnd
    \/ deviceBusy = "none" /\ PlayStart
    \/ deviceBusy = "none" /\ PlayTimeout
    \/ deviceBusy = "none" /\ PlayClosedStream
    \/ DeviceCallEnter
    \/ WriteReturn
    \/ ReadReturn

BlockingSpec == Init /\ [][NextBlocking]_vars

(***************************************************************************)
(* The audio server (server/audio_server.py).  websockets.serve starts one *)
(* handle_client coroutine per accepted connection; all of them run on one *)
(* event loop, so each action below is the code between two awaits.        *)
(***************************************************************************)
MessageKinds == {"bytes", "str"}

(* Variant: the connection is discarded in the two except clauses' normal  *)
(* paths only, not when another exception ends the handler.                *)
HandlerExitNoFinally(ac, c, how) ==
    IF how = "error" THEN ac ELSE ac \ {c}

(* The finally clause: set.discard, whichever way the try block ended      *)
(* ("normal", "closed" for ConnectionClosed, "error" for anything else).   *)
HandlerExit(ac, c, how) == ac \ {c}

(* The clients. *)
ClientConnect(c) ==
    /\ peer[c] = "none"
    /\ peer' = [peer EXCEPT ![c] = "open"]
    /\ UNCHANGED << voiceVars, active_connections, pcHandler, inbox,
                    responses >>

ClientSend(c, kind) ==
    /\ peer[c] = "open"
    /\ Len(inbox[c]) + responses[c] < MaxServerMsgs
    /\ inbox' = [inbox EXCEPT ![c] = Append(@, kind)]
    /\ UNCHANGED << voiceVars, active_connections, pcHandler, peer,
                    responses >>

(* A close handshake (how = "closed") or a lost connection ("aborted"). *)
ClientDisconnect(c, how) ==
    /\ peer[c] = "open"
    /\ peer' = [peer EXCEPT ![c] = how]
    /\ UNCHANGED << voiceVars, active_connections, pcHandler, inbox,
                    responses >>

(* handle_client up to its first await: the connection joins the set. *)
HandlerStart(c) ==
    /\ pcHandler[c] = "none"
    /\ peer[c] # "none"
    /\ active_connections' = active_connections \cup {c}
    /\ pcHandler' = [pcHandler EXCEPT ![c] = "recv"]
    /\ UNCHANGED << voiceVars, peer, inbox, responses >>

(* The iteration yields a message; either branch (bytes, str) builds a     *)
(* response and awaits websocket.send.  Messages received before the       *)
(* connection ended are still yielded.                                     *)
HandlerRecv(c) ==
    /\ pcHandler[c] = "recv"
    /\ inbox[c] # <<>>
    /\ inbox' = [inbox EXCEPT ![c] = Tail(@)]
    /\ Head(inbox[c]) \in MessageKinds
    /\ responses' = [responses EXCEPT ![c] = @ + 1]
    /\ pcHandler' = [pcHandler EXCEPT ![c] = "send"]
    /\ UNCHANGED << voiceVars, active_connections, peer >>

HandlerSendDone(c) ==
    /\ pcHandler[c] = "send"
    /\ peer[c] = "open"
    /\ pcHandler' = [pcHandler EXCEPT ![c] = "recv"]
    /\ UNCHANGED << voiceVars, active_connections, peer, inbox, responses >>

(* The handler ends: the iteration finishes after a close handshake        *)
(* ("normal"), recv or send raises ConnectionClosed ("closed"), or another *)
(* exception reaches the handler at an await ("error").                    *)
HandlerEnd(c, how) ==
    /\ pcHandler[c] \in {"recv", "send"}
    /\ \/ how = "normal" /\ pcHandler[c] = "recv" /\ inbox[c] = <<>>
                         /\ peer[c] = "closed"
       \/ how = "closed" /\ pcHandler[c] = "recv" /\ inbox[c] = <<>>
                         /\ peer[c] = "aborted"
       \/ how = "closed" /\ pcHandler[c] = "send"
                         /\ peer[c] \in {"closed", "aborted"}
       \/ how = "error"
    /\ active_connections' = HandlerExit(active_connections, c, how)
    /\ pcHandler' = [pcHandler EXCEPT ![c] = "done"]
    /\ UNCHANGED << voiceVars, peer, inbox, responses >>

NextServer ==
    \/ \E c \in Conns : ClientConnect(c)
    \/ \E c \in Conns, kind \in MessageKinds : ClientSend(c, kind)
    \/ \E c \in Conns, how \in {"closed", "aborted"} : ClientDisconnect(c, how)
    \/ \E c \in Conns : HandlerStart(c)
    \/ \E c \in Conns : HandlerRecv(c)
    \/ \E c \in Conns : HandlerSendDone(c)
    \/ \E c \in Conns, how \in {"normal", "closed", "error"} : HandlerEnd(c, how)

ServerSpec == Init /\ [][NextServer]_vars

(***************************************************************************)
(* Properties.                                                             *)
(***************************************************************************)
(* The receive loop has, in this step, obtained a message while running. *)
Received == nRecv' = nRecv + 1 /\ running

(* The session is closed: the loops have returned, the streams and the     *)
(* websocket are closed and start() has ended.                             *)
Closed ==
    /\ pcSend = "done" /\ pcRecv = "done" /\ pcPlay = "done"
    /\ input_stream = "closed" /\ output_stream = "closed"
    /\ ws = "closed"
    /\ pcStart \in {"returned", "raised"}

(* C1: the chunks written to the output device are, in order, the chunks   *)
(* the dispatcher enqueued: the i-th write carries the i-th enqueued       *)
(* chunk, whole, whatever the interleaving of the loops.                   *)
C1_PlaybackFifo ==
    /\ Len(writeLog) <= Len(enqLog)
    /\ \A i \in DOMAIN writeLog :
         writeLog[i] = [id |-> i, data |-> enqLog[i]]

C1_Witness ==
    /\ Len(writeLog) = 2
    /\ writeLog[1].data # writeLog[2].data

CompletedTranscript(m) ==
    m.kind = "object" /\ m.type \in {T_UserTranscript, T_TranscriptDone}

RoleOf(m) == IF m.type = T_UserTranscript THEN "user" ELSE "assistant"

(* C4 as stated: with a callback registered, every completed user          *)
(* transcription and every transcript done event invokes the callback      *)
(* exactly once, and no other event invokes it.                            *)
C4_OncePerCompletedEvent ==
    [][ (Received /\ transcript_callback) =>
          Len(cbLog') = Len(cbLog)
                        + (IF CompletedTranscript(lastMsg') THEN 1 ELSE 0)
      ]_vars

(* C4 amended: with a callback registered, a completed user transcription  *)
(* or transcript done event whose transcript is not empty invokes the      *)
(* callback exactly once, with its role and its full text; an event with   *)
(* an empty transcript, a transcript delta and every other event invoke    *)
(* nothing.                                                                *)
C4_OncePerNonEmptyTranscript ==
    [][ (Received /\ transcript_callback) =>
          cbLog' = cbLog \o
                   (IF CompletedTranscript(lastMsg') /\ lastMsg'.transcript # ""
                    THEN << [role |-> RoleOf(lastMsg'),
                             text |-> lastMsg'.transcript] >>
                    ELSE <<>>)
      ]_vars

C4_Witness ==
    /\ nRecv = 2
    /\ lastMsg = Event(T_TranscriptDone, "hello", <<>>)
    /\ cbLog = << [role |-> "assistant", text |-> "hello"] >>
    /\ pcRecv = "wait"

(* C5: stop() twice raises no error and releases no resource twice. *)
C5_StopIdempotent ==
    /\ stopErrors = 0
    /\ released.input <= 1
    /\ released.output <= 1
    /\ released.audio <= 1
    /\ released.ws <= 1

(* C6: after the transport has ended under a running session, the session *)
(* eventually is closed, with no call of stop() from outside.              *)
C6_DropLeadsToClosed ==
    (trace.dropWhileRunning /\ \A i \in StopIds : pcStop[i] = "none") ~> Closed

(* C7: an input_audio_buffer.append message is sent only after             *)
(* session.created and then session.updated have been received.            *)
C7_CaptureOnlyWhenActive == NumAppends > 0 => handshake = 2

(* C8: an audio delta whose payload fails base64 decoding is dropped       *)
(* whole and the receive loop goes on to the next message.                 *)
C8_BadPayloadSkipped ==
    [][ ( /\ Received
          /\ lastMsg'.kind = "object"
          /\ lastMsg'.type = T_AudioDelta
          /\ lastMsg'.delta # <<>>
          /\ ~b64decode(lastMsg'.delta).ok ) =>
          /\ UNCHANGED << playback_queue, enqLog >>
          /\ pcRecv' = "wait"
      ]_vars

(* C9: a write error does not end the playback loop of a running session. *)
C9_WriteErrorKeepsPlaying ==
    (trace.writeFailed /\ running) => pcPlay # "done"

(* C10: a device read error or a send error in the capture loop ends the   *)
(* capture loop only, and afterwards the session eventually is closed.     *)
C10_CaptureFailureLeadsToClosed ==
    /\ [][ (trace'.captureFailed /\ ~trace.captureFailed) =>
             (pcSend' = "done" /\ UNCHANGED << pcRecv, pcPlay, pcStart >>)
         ]_vars
    /\ (trace.captureFailed /\ \A i \in StopIds : pcStop[i] = "none") ~> Closed

(* The receive loop is suspended waiting for a message it can still get. *)
RecvWaiting ==
    pcRecv \in {"start", "wait"} /\ ws = "open" /\ nRecv < MaxMsgs

NoStopCalled == \A i \in StopIds : pcStop[i] = "none"

LoopsReturned ==
    /\ pcSend \in {"none", "done"}
    /\ pcRecv \in {"none", "done"}
    /\ pcPlay \in {"none", "done"}

(* C11: an error event of the fatal class, dispatched by a running         *)
(* session, leads to shutdown, whose first step clears the running flag;   *)
(* an error event of the advisory class is only logged: the receive loop   *)
(* goes on and the state of the client is as before.                       *)
C11_FatalErrorLeadsToClosed ==
    /\ [][ (Received /\ lastMsg' = ErrorEvent("advisory")) =>
             (pcRecv' = "wait" /\ UNCHANGED << clientVars, playback_queue >>)
         ]_vars
    /\ (lastMsg = ErrorEvent("fatal") /\ pcRecv = "wait" /\ running
          /\ NoStopCalled) ~> ~running

(* C12: a second start() call ends at once with an already-started error   *)
(* and changes nothing of the client: transport, streams, loops and the    *)
(* messages sent are as before.                                            *)
C12_SecondStartRejected ==
    [][ pcStart2' # pcStart2 =>
          /\ pcStart2' = "already_started"
          /\ UNCHANGED << clientVars, loopVars, sent >>
      ]_vars

(* C13: once connect or the audio setup has failed, start() does not       *)
(* return normally: it ends by raising.                                    *)
C13_StartupFailureRaises == trace.startupFailed => pcStart # "returned"

(* The three loops are running and the transport is open. *)
SessionHealthy ==
    /\ running
    /\ ws = "open"
    /\ pcSend \notin {"none", "done"}
    /\ pcRecv \notin {"none", "done"}
    /\ pcPlay \notin {"none", "done"}

(* C14 as stated: once the session is Active (session.updated received     *)
(* while running) start() comes back to its caller, the loops still        *)
(* running, unless by then the session has stopped being healthy.          *)
C14_ReturnsOnceActive ==
    (handshake = 2 /\ SessionHealthy /\ NoStopCalled)
       ~> (pcStart # "gather" \/ ~SessionHealthy)

(* C14: start() launches the three loops together and does not end while   *)
(* one of them is still running: whenever a loop has not returned,         *)
(* start() is suspended in gather.                                         *)
C14_ReturnsAfterLoops ==
    /\ pcStart # "gather" => LoopsReturned
    /\ pcStart = "gather" =>
          pcSend # "none" /\ pcRecv # "none" /\ pcPlay # "none"

C14_Witness ==
    /\ handshake = 2
    /\ pcStart = "returned"
    /\ pcSend = "done" /\ pcRecv = "done" /\ pcPlay = "done"

(* C15: a stop() invoked before start() or while start() is connecting and *)
(* configuring raises nothing and leaves the transport, the audio handles  *)
(* and the release counts as they are.                                     *)
C15_EarlyStopIsNoOp ==
    [][ ( /\ pcStart \in {"idle", "connecting", "configuring"}
          /\ \E i \in StopIds : pcStop[i] = "none" /\ pcStop'[i] # "none" )
        => UNCHANGED << ws, audio, input_stream, output_stream, released,
                        stopErrors >>
      ]_vars

(* C16: when the playback loop has returned without a write having raised, *)
(* every chunk that was put on the queue has been written.                 *)
C16_QueueDrainedBeforeReturn ==
    (pcPlay = "done" /\ ~trace.writeFailed) => Len(writeLog) = Len(enqLog)

(* C17: the streams are closed, and the transport is being closed, only    *)
(* when the three loops have returned.                                     *)
C17_StopWaitsForLoops ==
    (input_stream = "closed" \/ output_stream = "closed" \/ ws = "closing")
       => LoopsReturned

(* C18: after start() has returned, its stop() having completed, the       *)
(* playback queue is empty and the client holds no transport, stream or    *)
(* PyAudio handle.                                                         *)
C18_StateDestroyedOnStop ==
    pcStart = "returned" =>
       /\ playback_queue = <<>>
       /\ ws = "none"
       /\ input_stream = "none" /\ output_stream = "none"
       /\ audio = "none"

(* C19: while a loop is inside a device read or write and the receive      *)
(* loop has a message to take, the receive loop can take its step.         *)
C19_ReceiveNotBlockedByDevice ==
    (deviceBusy # "none" /\ RecvWaiting) =>
       ENABLED BlockingRecv

(* C20: once the transport is open the first message passed to it is the   *)
(* session configuration, it is the only configuration, and every other    *)
(* message is an input_audio_buffer.append; before it is open nothing is   *)
(* sent.                                                                   *)
C20_ConfigFirstAndOnce ==
    /\ ws = "none" => sent = <<>>
    /\ ws # "none" =>
          /\ sent # <<>>
          /\ sent[1] = "session.update"
          /\ \A i \in 2 .. Len(sent) : sent[i] = AppendType

C20_Witness ==
    /\ Len(sent) >= 2
    /\ sent[1] = "session.update"
    /\ sent[2] = AppendType

(* The event types _handle_event has a branch for. *)
RecognizedTypes ==
    { T_SessionCreated, T_SessionUpdated, T_UserTranscript, T_TranscriptDelta,
      T_TranscriptDone, T_AudioDelta, T_AudioDone, T_Error }

(* C21: when the playback loop has returned, every chunk that was decoded  *)
(* from an audio delta and enqueued while the session was running has      *)
(* been written, once, with the decoded bytes.                             *)
C21_EveryChunkWritten ==
    pcPlay = "done" =>
       /\ Len(writeLog) = Len(enqLog)
       /\ \A i \in DOMAIN enqLog :
             i \in DOMAIN writeLog /\ writeLog[i].data = enqLog[i]

(* C22: a running receive loop that obtains an object whose type has no    *)
(* branch goes on to the next message, and the queue, the callback log,    *)
(* the handshake and the fields of the client are as before.               *)
C22_UnknownTypeIgnored ==
    [][ ( /\ Received
          /\ lastMsg'.kind = "object"
          /\ lastMsg'.type \notin RecognizedTypes )
        => /\ pcRecv' = "wait"
           /\ UNCHANGED << playback_queue, enqLog, cbLog, handshake,
                           clientVars, pcSend, pcPlay >>
      ]_vars

C22_Witness ==
    /\ lastMsg = Event(T_Unknown, "", <<>>)
    /\ running
    /\ pcRecv = "wait"
    /\ nRecv < MaxMsgs

(* C23: a session whose loops were launched without the server having      *)
(* acknowledged the configuration gets the acknowledgement or ends: it     *)
(* does not run on unacknowledged for ever.                                *)
C23_HandshakeDeadline ==
    (pcStart = "gather" /\ handshake < 2 /\ NoStopCalled)
       ~> (handshake = 2 \/ pcStart # "gather" \/ ~SessionHealthy)

(* C24: the bodies of the messages sent are the same whatever the API key  *)
(* the client was built with, and no field of a body is the key.           *)
C24_KeyNotInBodies ==
    \A k1 \in ApiKeys :
       /\ \A k2 \in ApiKeys :
             SentBodies(ClientConfig(k1)) = SentBodies(ClientConfig(k2))
       /\ \A i \in DOMAIN sent :
             LET body == SentBodies(ClientConfig(k1))[i]
             IN \A f \in DOMAIN body : body[f] # k1

C24_Witness ==
    /\ Len(sent) >= 2
    /\ SentBodies(ClientConfig("key-a"))[2].type = AppendType
    /\ ConnectHeaders(ClientConfig("key-a"))
         # ConnectHeaders(ClientConfig("key-b"))

(* C25: a tool-invocation event dispatched by a healthy session leads to   *)
(* a tool-result message being sent, unless the session stops being        *)
(* healthy first.                                                          *)
C25_ToolCallAnswered ==
    ( /\ lastMsg = Event(T_ToolCall, "", <<>>)
      /\ pcRecv = "wait"
      /\ SessionHealthy
      /\ NoStopCalled )
       ~> ( \/ \E i \in DOMAIN sent : sent[i] = "conversation.item.create"
            \/ ~SessionHealthy )

(* C26: the callback log grows only in the step in which the receive loop  *)
(* obtains a completed transcript, by one call put at its end: role "user" *)
(* for a completed user transcription, "assistant" for a transcript done,  *)
(* with the text of that event.                                            *)
C26_CallbackInArrivalOrder ==
    [][ cbLog' # cbLog =>
          /\ Received
          /\ lastMsg'.type \in {T_UserTranscript, T_TranscriptDone}
          /\ cbLog' = Append(cbLog,
                [ role |-> IF lastMsg'.type = T_UserTranscript
                           THEN "user" ELSE "assistant",
                  text |-> lastMsg'.transcript ])
      ]_vars

C26_Witness ==
    /\ Len(cbLog) = 2
    /\ cbLog[1].role = "user"
    /\ cbLog[2].role = "assistant"
    /\ lastMsg = Event(T_TranscriptDone, "hello", <<>>)

(* C27: the receive loop is never suspended in playback_queue.put: the     *)
(* dispatch of a decodable audio delta puts the chunk on the queue and     *)
(* the loop goes on, whatever the length of the queue.                     *)
C27_EnqueueNeverBlocks ==
    /\ [](pcRecv # "putting")
    /\ [][ ( /\ Received
             /\ lastMsg'.kind = "object"
             /\ lastMsg'.type = T_AudioDelta
             /\ lastMsg'.delta # <<>>
             /\ b64decode(lastMsg'.delta).ok )
           => /\ pcRecv' = "wait"
              /\ Len(playback_queue') = Len(playback_queue) + 1
         ]_vars

C27_Witness ==
    /\ running
    /\ pcPlay = "done"
    /\ playback_queue # <<>>
    /\ lastMsg = Event(T_AudioDelta, "", PayloadAAEC)
    /\ pcRecv = "wait"

(* C28: once the running flag of a launched session is cleared, no         *)
(* message is dispatched (no callback, no enqueue, no handshake step),     *)
(* nothing more is sent, the receive loop can only return and the          *)
(* playback loop starts no wait on the queue.                              *)
C28_NothingStartedAfterClear ==
    [][ (~running /\ pcStart = "gather") =>
          /\ cbLog' = cbLog
          /\ enqLog' = enqLog
          /\ handshake' = handshake
          /\ sent' = sent
          /\ pcRecv' # pcRecv => pcRecv' = "done"
          /\ pcSend' # pcSend => pcSend' = "done"
          /\ pcPlay # "wait" => pcPlay' # "wait"
      ]_vars

C28_Witness ==
    /\ trace.stopWhileRunning
    /\ transcript_callback
    /\ lastMsg = Event(T_TranscriptDone, "hello", <<>>)
    /\ nRecv = 1
    /\ cbLog = <<>>
    /\ pcRecv = "done"

(* C29: a running receive loop that obtains valid JSON that is no object   *)
(* skips it and goes on to the next message.                               *)
C29_NonObjectSkipped ==
    [][ (Received /\ lastMsg'.kind = "nonobject") => pcRecv' = "wait" ]_vars

(* C30: after a dispatch in which the transcript callback was invoked,     *)
(* whether it returned or raised, the receive loop goes on to the next     *)
(* message.                                                                *)
C30_CallbackErrorContained ==
    [][ (Received /\ cbLog' # cbLog) => pcRecv' = "wait" ]_vars

(* A stop() body runs in this step: as a task of its own, or in the        *)
(* finally block of a start() call.                                        *)
StopRuns ==
    \/ \E i \in StopIds : pcStop[i] = "none" /\ pcStop'[i] # "none"
    \/ /\ pcStart \in {"connecting", "configuring", "gather"}
       /\ pcStart' \in {"closing", "returned", "raised"}
    \/ /\ pcStart2 = "connecting"
       /\ pcStart2' \in {"closing", "returned", "raised"}

(* C31: a stop() that finds the websocket open starts closing it, whatever *)
(* the release of the audio streams does.                                  *)
C31_StopAlwaysClosesWs ==
    [][ (StopRuns /\ ws = "open") => ws' = "closing" ]_vars

(* C32: no step takes a chunk for the output stream, and none reads or     *)
(* tests the input stream, while that stream is closed.                    *)
C32_NoUseAfterClose ==
    [][ /\ output_stream = "closed" =>
             Len(playback_queue') >= Len(playback_queue)
        /\ input_stream = "closed" =>
             (sent' = sent /\ trace'.captureFailed = trace.captureFailed)
      ]_vars

(* C33: once start() has ended after a failure of connect or of the audio  *)
(* setup, the running flag is false and whatever had been acquired is      *)
(* released: the websocket closed, each opened stream closed, PyAudio      *)
(* terminated.                                                             *)
C33_FailedStartReleasesAll ==
    (trace.startupFailed /\ pcStart \in {"returned", "raised"}) =>
       /\ ~running
       /\ ws \in {"none", "closed"}
       /\ input_stream \in {"none", "closed"}
       /\ output_stream \in {"none", "closed"}
       /\ audio \in {"none", "terminated"}

C33_Witness ==
    /\ trace.startupFailed
    /\ pcStart = "returned"
    /\ ws = "closed"
    /\ input_stream = "closed"
    /\ output_stream = "none"
    /\ audio = "terminated"

(* C34: while running is true the websocket has been opened, the           *)
(* configuration was the first message sent, both streams and PyAudio are  *)
(* open, and no stop() has released any of them.                           *)
C34_RunningImpliesAcquired ==
    running =>
       /\ ws # "none"
       /\ sent # <<>> /\ sent[1] = "session.update"
       /\ input_stream = "open" /\ output_stream = "open"
       /\ audio = "live"
       /\ released = NoRelease

InProgress(c) == pcHandler[c] \in {"recv", "send"}

(* C35: active_connections is exactly the set of connections whose         *)
(* handle_client call has started and has not ended, whichever way each    *)
(* handler ended.                                                          *)
C35_ActiveIsInProgress ==
    active_connections = {c \in Conns : InProgress(c)}

C35_Witness ==
    \E c, d \in Conns :
       /\ c # d
       /\ pcHandler[c] = "done" /\ peer[c] = "open"
       /\ pcHandler[d] = "send" /\ d \in active_connections

====
